---------------------------- MODULE Spec2Model ----------------------------
(***************************************************************************)
(* A state-machine model of the packaging pipeline of nwjs-builder-phoenix *)
(* (src/src/lib/Builder.ts, src/src/lib/util/archive.ts).                  *)
(*                                                                         *)
(* A Builder instance is a process: builder 0 is the instance the caller   *)
(* constructs, builders 1..MaxConcurrent are the sub-builds that the       *)
(* concurrent branch of build() constructs, one per task.  Every await of  *)
(* the pipeline is a step of the builder that runs it; the steps of        *)
(* different builders interleave freely.  The filesystem under the output  *)
(* directory (target directories, archives, installers, the registry file) *)
(* is shared by all builders.                                              *)
(***************************************************************************)
EXTENDS Integers, Sequences, FiniteSets, TLC

(***************************************************************************)
(* Bounds of the model.                                                    *)
(***************************************************************************)
\* The largest task matrix that is run in concurrent mode.
MaxConcurrent == 2

\* The largest number of versions the registry file holds before a build.
MaxPrior == 2

(***************************************************************************)
(* Vocabulary.                                                             *)
(***************************************************************************)
PlatformOrder == <<"win", "mac", "linux">>

ArchOrder == <<"x86", "x64">>

Archs == {"x86", "x64"}

\* The platform spellings the switch statements of the builder name, and one
\* spelling they do not.
Tokens == {"win32", "win", "linux", "darwin", "osx", "mac", "freebsd"}

Builders == 0..MaxConcurrent

Versions == {"1.0.0", "1.1.0-beta", "1.1.0"}

TargetKinds == {"zip", "7z", "nsis", "nsis7z"}

ManifestFiles == {"package.json", "manifest.json"}

\* The files of the project directory.
ProjectFiles == {"package.json", "manifest.json", "index.html", "dist/old.zip"}

(***************************************************************************)
(* Builder.DEFAULT_OPTIONS and the options of a sub-build.                 *)
(***************************************************************************)
DEFAULT_OPTIONS ==
    [win |-> FALSE, mac |-> FALSE, linux |-> FALSE, x86 |-> FALSE, x64 |-> FALSE,
     chromeApp |-> FALSE, concurrent |-> FALSE, mute |-> TRUE]

\* mergeOptions(DEFAULT_OPTIONS, options): the given keys override the defaults.
mergeOptions(defaults, given) ==
    [k \in DOMAIN defaults |-> IF k \in DOMAIN given THEN given[k] ELSE defaults[k]]

SubOptionsInherit(o, task) ==
    mergeOptions(DEFAULT_OPTIONS,
                 [k \in {task[1], task[2], "concurrent", "mute"} |->
                     IF k = "concurrent" THEN o.concurrent ELSE TRUE])

\* The options object built for the sub-build of one task.
SubOptions(o, task) ==
    mergeOptions(DEFAULT_OPTIONS,
                 [k \in {task[1], task[2], "concurrent", "mute"} |->
                     IF k = "concurrent" THEN FALSE ELSE TRUE])

(***************************************************************************)
(* The task matrix of build().                                             *)
(***************************************************************************)
\* The pairs in the order the nested map visits them.
Pairs ==
    [i \in 1..(Len(PlatformOrder) * Len(ArchOrder)) |->
        <<PlatformOrder[((i - 1) \div Len(ArchOrder)) + 1],
          ArchOrder[((i - 1) % Len(ArchOrder)) + 1]>>]

TaskMatrixEither(o) == SelectSeq(Pairs, LAMBDA t : o[t[1]] \/ o[t[2]])

TaskMatrix(o) == SelectSeq(Pairs, LAMBDA t : o[t[1]] /\ o[t[2]])

(***************************************************************************)
(* semver.gt on the version strings of the model.                          *)
(***************************************************************************)
\* semver's parse: major, minor, patch and whether a prerelease tag follows.
SemVer(v) ==
    CASE v = "1.0.0"      -> [major |-> 1, minor |-> 0, patch |-> 0, pre |-> FALSE]
      [] v = "1.1.0-beta" -> [major |-> 1, minor |-> 1, patch |-> 0, pre |-> TRUE]
      [] v = "1.1.0"      -> [major |-> 1, minor |-> 1, patch |-> 0, pre |-> FALSE]

SemverCompare(a, b) ==
    LET x == SemVer(a)
        y == SemVer(b)
    IN  IF x.major # y.major THEN (IF x.major > y.major THEN 1 ELSE -1)
        ELSE IF x.minor # y.minor THEN (IF x.minor > y.minor THEN 1 ELSE -1)
        ELSE IF x.patch # y.patch THEN (IF x.patch > y.patch THEN 1 ELSE -1)
        ELSE IF x.pre = y.pre THEN 0
        ELSE IF x.pre THEN -1 ELSE 1

SemverGte(a, b) == SemverCompare(a, b) >= 0

SemverGt(a, b) == SemverCompare(a, b) > 0


(***************************************************************************)
(* The project manifest and the BuildConfig derived from it.  A manifest   *)
(* of the model is the record of the settings the builder reads; Pkg is    *)
(* the parsed JSON object (pkg) with its top-level keys.                   *)
(***************************************************************************)
AppName == "app"

Pkg(m) ==
    [name |-> AppName, version |-> m.version, main |-> "index.html", build |-> "build"]

\* String.prototype.endsWith
EndsWith(str, suffix) ==
    /\ Len(str) >= Len(suffix)
    /\ SubSeq(str, Len(str) - Len(suffix) + 1, Len(str)) = suffix

StartsWith(str, prefix) ==
    /\ Len(str) >= Len(prefix)
    /\ SubSeq(str, 1, Len(prefix)) = prefix

\* Whether a file of the project lies in a directory below the project root.
InSubdir(f) == \E i \in 1..Len(f) : SubSeq(f, i, i) = "/"

\* Whether a glob pattern matches a file path relative to the project root:
\* "**/*" matches every file; "dir/**/*" every file below dir; "*.ext" the
\* files of the root with that ending; any other pattern of the model is a
\* literal path.
GlobMatch(pattern, f) ==
    IF pattern = "**/*" THEN TRUE
    ELSE IF EndsWith(pattern, "/**/*")
    THEN StartsWith(f, SubSeq(pattern, 1, Len(pattern) - 4))
    ELSE IF StartsWith(pattern, "*.")
    THEN ~InSubdir(f) /\ EndsWith(f, SubSeq(pattern, 2, Len(pattern)))
    ELSE f = pattern

\* The project files a glob pattern matches (globby against the project root).
Glob(pattern) == {f \in ProjectFiles : GlobMatch(pattern, f)}

GlobAll(patterns) == UNION {Glob(p) : p \in patterns}

\* The fixed excludes of copyFiles.
generalExcludes ==
    {"**/node_modules/.bin",
     "**/node_modules/*/{ example, examples, test, tests }",
     "**/{ .DS_Store, .git, .hg, .svn, *.log }"}

\* findExcludableDependencies(): the project of the model has no dependencies.
dependenciesExcludes == {}

IgnoreOfNoOutput(config) ==
    config.excludes \cup generalExcludes \cup dependenciesExcludes

\* The ignore list of copyFiles.
IgnoreOf(config) ==
    config.excludes \cup generalExcludes \cup dependenciesExcludes
        \cup {config.output, config.output \o "/**/*"}

\* The files copyFiles ships: globby(config.files, { ignore }).
CollectFiles(config) == GlobAll(config.files) \ GlobAll(IgnoreOf(config))

\* The order in which a directory walk lists the files of the project.
FileOrder == <<"dist/old.zip", "index.html", "manifest.json", "package.json">>

\* glob(pattern, { ignore }): the matches that no ignore pattern matches.
GlobList(pattern, ignore) ==
    SelectSeq(FileOrder, LAMBDA f : f \in Glob(pattern) /\ f \notin GlobAll(ignore))

\* array-union: a, followed by the entries of b that are not in a.
ArrayUnion(a, b) == a \o SelectSeq(b, LAMBDA f : \A i \in DOMAIN a : a[i] # f)

\* globby(patterns, { ignore }): the union of the matches of the patterns,
\* in the order of the patterns.
RECURSIVE globby(_, _)
globby(patterns, ignore) ==
    IF patterns = <<>> THEN <<>>
    ELSE ArrayUnion(globby(SubSeq(patterns, 1, Len(patterns) - 1), ignore),
                    GlobList(patterns[Len(patterns)], ignore))

\* The content of a project file: a manifest file holds a JSON object, any
\* other file is opaque data.
Content(proj, f) == IF f \in ManifestFiles THEN Pkg(proj[f]) ELSE [data |-> f]

\* The object copyFiles serialises into the bundle's package.json.
StripManifest(pkg, strippedProperties) ==
    [key \in {k \in DOMAIN pkg : k \notin strippedProperties} |-> pkg[key]]

(***************************************************************************)
(* Paths under the output directory.                                       *)
(***************************************************************************)
\* `${ pkg.name }-${ pkg.version }-${ platform }-${ arch }`
TargetDir(version, platform, arch) == <<version, platform, arch>>

\* A file next to the target directories: an archive, an installer, an updater.
Artifact(kind, version, from, platform, arch) ==
    [kind |-> kind, version |-> version, from |-> from, platform |-> platform,
     arch |-> arch, whole |-> TRUE]

\* What the archiver leaves of an archive when it stops with a non-zero code.
Partial(a) == [a EXCEPT !.whole = FALSE]

EmptyDir ==
    [runtime |-> FALSE, ffmpeg |-> FALSE, prepared |-> FALSE, files |-> <<>>,
     payload |-> <<>>, appended |-> "none", renamed |-> FALSE, stale |-> FALSE]

\* A target directory a finished earlier build left behind; old.js is a file
\* the project had then and has no more.
BuiltDir(m) ==
    [runtime |-> TRUE, ffmpeg |-> FALSE, prepared |-> TRUE,
     files |-> [f \in {"index.html", "package.json", "old.js"} |->
                  IF f = "package.json"
                  THEN StripManifest(Pkg(m), m.strippedProperties)
                  ELSE [data |-> f]],
     payload |-> <<>>, appended |-> "none", renamed |-> TRUE, stale |-> FALSE]

(***************************************************************************)
(* The version registry (NsisVersionInfo, versions.nsis.json): a mapping   *)
(* from version to {source, installers: {arch: path}, updaters:            *)
(* {fromVersion: {arch: path}}}.  The updaters of the model are keyed by   *)
(* the pair <<fromVersion, arch>>.                                         *)
(***************************************************************************)
EmptyRegistry == <<>>

NewEntry(source) == [source |-> source, installers |-> <<>>, updaters |-> <<>>]

\* f with key k bound to value v.
Put(f, k, v) == [x \in DOMAIN f \cup {k} |-> IF x = k THEN v ELSE f[x]]

addVersion(data, version, source) ==
    IF version \in DOMAIN data
    THEN [data EXCEPT ![version].source = source]
    ELSE Put(data, version, NewEntry(source))

addInstaller(data, version, arch, path) ==
    [data EXCEPT ![version].installers = Put(@, arch, path)]

addUpdater(data, version, fromVersion, arch, path) ==
    [data EXCEPT ![version].updaters = Put(@, <<fromVersion, arch>>, path)]

\* The versions of the registry as a list, ordered by semantic version.
RECURSIVE SortVersions(_)
SortVersions(S) ==
    IF S = {} THEN <<>>
    ELSE LET least == CHOOSE v \in S : \A w \in S : ~SemverGt(v, w)
         IN  <<least>> \o SortVersions(S \ {least})

getVersions(data) == SortVersions(DOMAIN data)

OlderOrSame(version, versions) ==
    SelectSeq(versions, LAMBDA v : SemverGte(version, v))

\* The versions the updater loop builds an updater from: those of the list
\* that pass semver.gt(pkg.version, version), in the order of the list.
UpdaterSources(version, versions) ==
    SelectSeq(versions, LAMBDA v : SemverGt(version, v))

\* The entry an earlier installer-target build of version v, for both
\* architectures, left in the registry.
PriorEntry(v) ==
    [source     |-> TargetDir(v, "win", "x64"),
     installers |-> [a \in Archs |-> Artifact("Setup", v, "", "win", a)],
     updaters   |-> <<>>]

PriorRegistry(S) == [v \in S |-> PriorEntry(v)]

(***************************************************************************)
(* State.                                                                  *)
(***************************************************************************)
VARIABLES
    builder,    \* builder[b]: the state of Builder instance b (see NoBuilder)
    project,    \* the manifest files of the project directory
    dirs,       \* the target directories under the output directory
    outFiles,   \* archives, installers and updaters under the output directory
    tmpFiles,   \* temporary files that exist
    regFile,    \* the content of versions.nsis.json
    regBefore,  \* the content of versions.nsis.json before the build
    tasklog,    \* tasklog[t]: what has happened for task t (see NoLog)
    ex,         \* the call of extractGeneric in progress (see NoExtract)
    fc          \* the file collection of copyFiles on its own (see NoCollect)

vars == <<builder, project, dirs, outFiles, tmpFiles, regFile, regBefore, tasklog, ex, fc>>

\* The variables of a build.
buildVars == <<builder, project, dirs, outFiles, tmpFiles, regFile, regBefore, tasklog>>

\* No file collection.  files, excludes, output: config.files,
\* config.excludes and config.output; result: the array globby returned;
\* again: the array a second collection returned.
NoCollect ==
    [pc |-> "none", files |-> <<>>, excludes |-> {}, output |-> "", result |-> <<>>,
     again |-> <<>>]

\* No call of extractGeneric.  archive: the name of the archive; overwrite:
\* options.overwrite; dest: the names of the files in the destination;
\* spawned: the archiver runs so far, each the file it was given and its -ao
\* switch; err: the error the call failed with.
NoExtract ==
    [pc |-> "none", archive |-> "", overwrite |-> FALSE, dest |-> {}, spawned |-> <<>>,
     err |-> ""]

\* The log of a task: runs, how many times buildTask was entered for it;
\* dir, whether its buildDirTarget has returned; targets, how many of its
\* targets have been completed; made, the kinds of file written for it under
\* the output directory ("registry" for the registry file); diffs, the
\* updaters compiled for it, each with the two directories NsisDiffer compared.
NoLog == [runs |-> 0, dir |-> FALSE, targets |-> 0, made |-> {}, diffs |-> {}]

\* A Builder that has not been constructed.  options, tasks: as in build();
\* ti, si, tg: the index of the current task, of the current step of
\* buildDirTarget's switch and of the current target; pkgFile: the manifest
\* file read; versionInfo: the registry object of the installer target being
\* built; queue: the versions left to the updater loop; err, at: the error
\* the builder failed with and where; parent: the builder that constructed
\* it; saves, regAtBegin: the registry writes of the installer target being
\* built and the registry file as it was when that target began.
NoBuilder ==
    [options |-> DEFAULT_OPTIONS, pc |-> "none", tasks |-> <<>>, ti |-> 0, si |-> 0,
     tg |-> 0, pkgFile |-> "", versionInfo |-> EmptyRegistry, queue |-> <<>>,
     err |-> "", at |-> "", parent |-> 0, saves |-> 0, regAtBegin |-> EmptyRegistry]

\* new Builder(options, dir)
NewBuilder(options, parent) ==
    [NoBuilder EXCEPT !.options = mergeOptions(DEFAULT_OPTIONS, options),
                      !.pc = "new", !.parent = parent]

(***************************************************************************)
(* The initial states: a constructed Builder, a project and an output      *)
(* directory.                                                              *)
(***************************************************************************)
BaseManifest ==
    [version |-> "1.1.0", packed |-> FALSE, targets |-> <<>>, diffUpdaters |-> FALSE,
     ffmpegIntegration |-> FALSE, files |-> {"**/*"}, excludes |-> {},
     strippedProperties |-> {"scripts", "devDependencies", "build"}, output |-> "dist"]

\* Manifests that vary how the bundle is assembled.
BundleManifests ==
    {[BaseManifest EXCEPT !.packed = p, !.ffmpegIntegration = f, !.files = g,
                          !.strippedProperties = s, !.targets = t] :
        p \in BOOLEAN, f \in BOOLEAN, g \in {{"**/*"}, {"*.html"}},
        s \in {{"scripts", "devDependencies", "build"}, {"build", "main"}},
        t \in {<<>>, <<"zip">>}}

\* Manifests that vary the targets and the version.
InstallerManifests ==
    {[BaseManifest EXCEPT !.targets = t, !.diffUpdaters = d, !.version = v] :
        t \in {<<"nsis">>, <<"nsis7z">>, <<"zip", "nsis">>, <<"nsis", "rar", "7z">>},
        d \in BOOLEAN, v \in Versions}

\* Manifests for the runs that vary the options.
PlanManifests ==
    {[BaseManifest EXCEPT !.targets = t] : t \in {<<>>, <<"7z">>, <<"nsis", "zip">>}}

OptionSets ==
    {o \in [DOMAIN DEFAULT_OPTIONS -> BOOLEAN] :
        /\ o.mute
        /\ o.concurrent => Len(TaskMatrix(o)) <= MaxConcurrent}

Registries == {PriorRegistry(S) : S \in {T \in SUBSET Versions : Cardinality(T) <= MaxPrior}}

Scenario(o, m, r) ==
    \/ /\ m \in PlanManifests
       /\ r = EmptyRegistry
    \/ /\ Len(TaskMatrix(o)) = 1
       /\ ~o.chromeApp /\ ~o.concurrent
       /\ m \in BundleManifests
       /\ r = EmptyRegistry
    \/ /\ o.win /\ ~o.mac /\ ~o.linux
       /\ ~o.chromeApp
       /\ m \in InstallerManifests
       /\ r \in Registries

InitShared(m, r) ==
    /\ project = [f \in ManifestFiles |-> m]
    /\ dirs = [d \in {TargetDir(v, "win", a) : v \in DOMAIN r, a \in Archs} |->
                 BuiltDir([m EXCEPT !.version = d[1]])]
    /\ outFiles = {Artifact("Setup", v, "", "win", a) : v \in DOMAIN r, a \in Archs}
    /\ tmpFiles = {}
    /\ regFile = r
    /\ regBefore = r

Init ==
    \E o \in OptionSets, m \in PlanManifests \cup BundleManifests \cup InstallerManifests,
       r \in Registries :
        /\ Scenario(o, m, r)
        /\ builder = [b \in Builders |-> IF b = 0 THEN NewBuilder(o, 0) ELSE NoBuilder]
        /\ InitShared(m, r)
        /\ tasklog = <<>>
        /\ ex = NoExtract
        /\ fc = NoCollect

(***************************************************************************)
(* The platform dispatch of buildDirTarget and copyFiles.                  *)
(***************************************************************************)
\* The switch that chooses the application resource root.
AppRoot(platform) ==
    CASE platform \in {"win32", "win", "linux"} -> "./"
      [] platform \in {"darwin", "osx", "mac"}  -> "./nwjs.app/Contents/Resources/app.nw/"
      [] OTHER                                  -> "throw"

DirStepsCopyFirst(platform) ==
    CASE platform \in {"win32", "win"}         -> <<"copyFiles", "prepareWinBuild", "renameWinApp">>
      [] platform \in {"darwin", "osx", "mac"} -> <<"copyFiles", "prepareMacBuild", "renameMacApp">>
      [] platform = "linux"                    -> <<"copyFiles", "prepareLinuxBuild", "renameLinuxApp">>
      [] OTHER                                 -> <<"throw">>

DirStepsOsxAsLinux(platform) ==
    CASE platform \in {"win32", "win"}     -> <<"prepareWinBuild", "copyFiles", "renameWinApp">>
      [] platform \in {"darwin", "mac"}    -> <<"prepareMacBuild", "copyFiles", "renameMacApp">>
      [] platform \in {"linux", "osx"}     -> <<"prepareLinuxBuild", "copyFiles", "renameLinuxApp">>
      [] OTHER                             -> <<"throw">>

\* The switch that runs the three steps of a platform, in the order written.
DirSteps(platform) ==
    CASE platform \in {"win32", "win"}         -> <<"prepareWinBuild", "copyFiles", "renameWinApp">>
      [] platform \in {"darwin", "osx", "mac"} -> <<"prepareMacBuild", "copyFiles", "renameMacApp">>
      [] platform = "linux"                    -> <<"prepareLinuxBuild", "copyFiles", "renameLinuxApp">>
      [] OTHER                                 -> <<"throw">>

PrepareSteps == {"prepareWinBuild", "prepareMacBuild", "prepareLinuxBuild"}

RenameSteps == {"renameWinApp", "renameMacApp", "renameLinuxApp"}

\* The switch of the packed branch of copyFiles.
PackedBranch(platform) ==
    CASE platform \in {"win32", "win", "linux"} -> "append"
      [] platform \in {"darwin", "osx", "mac"}  -> "copy"
      [] OTHER                                  -> "throw"

NsisRunsAlways(platform) == TRUE

\* The guard of buildNsisTarget and buildNsis7zTarget: platform != 'win' returns.
NsisRuns(platform) == platform = "win"

(***************************************************************************)
(* Accessors of a builder's current task.                                  *)
(***************************************************************************)
TaskOf(B) == B.tasks[B.ti]

PlatformOf(B) == TaskOf(B)[1]

ArchOf(B) == TaskOf(B)[2]

\* pkg and config of a builder: both come from the manifest file it read.
ManifestOf(B) == project[B.pkgFile]

DirOf(B) == TargetDir(ManifestOf(B).version, PlatformOf(B), ArchOf(B))

StepOf(B) == DirSteps(PlatformOf(B))[B.si]

TargetOf(B) == ManifestOf(B).targets[B.tg]

LogOf(log, t) == IF t \in DOMAIN log THEN log[t] ELSE NoLog

Entered(log, t) == Put(log, t, [NoLog EXCEPT !.runs = LogOf(log, t).runs + 1])

DirDone(log, t) == Put(log, t, [LogOf(log, t) EXCEPT !.dir = TRUE])

Made(log, t, kinds) == Put(log, t, [LogOf(log, t) EXCEPT !.made = @ \cup kinds])

Diffed(log, t, diff) == Put(log, t, [LogOf(log, t) EXCEPT !.diffs = @ \cup {diff}])

TargetDone(log, t) == Put(log, t, [LogOf(log, t) EXCEPT !.targets = @ + 1])

\* The builder fails: the error propagates out of its build().
Failed(B, e) == [B EXCEPT !.pc = "failed", !.err = e, !.at = B.pc]

Fail(b, e) == builder' = [builder EXCEPT ![b] = Failed(builder[b], e)]

\* buildTask is entered for task i of the builder's list.
EnterTask(b, B, i, log) ==
    /\ builder' = [builder EXCEPT ![b] = [B EXCEPT !.ti = i, !.si = 0, !.tg = 0,
                                                    !.pc = "fetch"]]
    /\ tasklog' = Entered(log, B.tasks[i])

ToTargetFirstOnly(b, B, i, log) ==
    IF i <= Len(ManifestOf(B).targets) /\ i <= 1
    THEN /\ builder' = [builder EXCEPT ![b] = [B EXCEPT !.pc = "target", !.tg = i]]
         /\ tasklog' = log
    ELSE IF B.ti < Len(B.tasks)
    THEN EnterTask(b, B, B.ti + 1, log)
    ELSE /\ builder' = [builder EXCEPT ![b] = [B EXCEPT !.pc = "done"]]
         /\ tasklog' = log

\* The target loop of buildTask moves on to target i; past the last target
\* buildTask returns and the task loop of build() moves on.
ToTarget(b, B, i, log) ==
    IF i <= Len(ManifestOf(B).targets)
    THEN /\ builder' = [builder EXCEPT ![b] = [B EXCEPT !.pc = "target", !.tg = i]]
         /\ tasklog' = log
    ELSE IF B.ti < Len(B.tasks)
    THEN EnterTask(b, B, B.ti + 1, log)
    ELSE /\ builder' = [builder EXCEPT ![b] = [B EXCEPT !.pc = "done"]]
         /\ tasklog' = log

ToStepNoRename(b, B) ==
    IF B.si < Len(DirSteps(PlatformOf(B))) - 1
    THEN /\ builder' = [builder EXCEPT ![b] = [B EXCEPT !.pc = "step", !.si = B.si + 1]]
         /\ tasklog' = tasklog
    ELSE ToTarget(b, B, 1, DirDone(tasklog, TaskOf(B)))

\* buildDirTarget moves past step B.si of the switch; after the last step it
\* returns the target directory to buildTask.
ToStep(b, B) ==
    IF B.si < Len(DirSteps(PlatformOf(B)))
    THEN /\ builder' = [builder EXCEPT ![b] = [B EXCEPT !.pc = "step", !.si = B.si + 1]]
         /\ tasklog' = tasklog
    ELSE ToTarget(b, B, 1, DirDone(tasklog, TaskOf(B)))

(***************************************************************************)
(* build(): the task matrix, then the concurrent or the sequential branch. *)
(***************************************************************************)
Build(b) ==
    LET B     == builder[b]
        tasks == TaskMatrix(B.options)
    IN  /\ B.pc = "new"
        /\ IF Len(tasks) = 0
           THEN Fail(b, "ERROR_NO_TASK")
           ELSE IF B.options.concurrent
           THEN /\ \A i \in 1..Len(tasks) : i \in Builders /\ builder[i].pc = "none"
                /\ builder' =
                     [c \in Builders |->
                        IF c = b THEN [B EXCEPT !.pc = "join", !.tasks = tasks]
                        ELSE IF c \in 1..Len(tasks)
                        THEN NewBuilder(SubOptions(B.options, tasks[c]), b)
                        ELSE builder[c]]
           ELSE builder' = [builder EXCEPT ![b] = [B EXCEPT !.pc = "read", !.tasks = tasks]]
        /\ UNCHANGED <<project, dirs, outFiles, tmpFiles, regFile, regBefore, tasklog, ex, fc>>

\* The manifest file the sequential branch reads.
ManifestFile(options) == IF options.chromeApp THEN "manifest.json" ELSE "package.json"

\* readJsonAsync and new BuildConfig(pkg); then the task loop begins.
ReadManifest(b) ==
    LET B == builder[b]
    IN  /\ B.pc = "read"
        /\ \/ /\ Fail(b, "ERROR_EXTERNAL")
              /\ UNCHANGED tasklog
           \/ EnterTask(b, [B EXCEPT !.pkgFile = ManifestFile(B.options)], 1, tasklog)
        /\ UNCHANGED <<project, dirs, outFiles, tmpFiles, regFile, regBefore, ex, fc>>

MapRejectsAndCancels(b, e) ==
    [c \in Builders |->
        IF c = b \/ (builder[c].parent = b /\ builder[c].pc \notin {"none", "done", "failed"})
        THEN Failed(builder[c], e)
        ELSE builder[c]]

\* Bluebird.map rejects with error e: build() of builder b rejects; the
\* promises of the other mapper calls are left to run.
MapRejects(b, e) == [builder EXCEPT ![b] = Failed(builder[b], e)]

\* Bluebird.map settles: it rejects as soon as one sub-build has failed and
\* resolves when all have finished.
Join(b) ==
    LET B    == builder[b]
        kids == {c \in Builders \ {b} : builder[c].pc # "none" /\ builder[c].parent = b}
    IN  /\ B.pc = "join"
        /\ \/ \E c \in kids : /\ builder[c].pc = "failed"
                              /\ builder' = MapRejects(b, builder[c].err)
           \/ /\ \A c \in kids : builder[c].pc = "done"
              /\ builder' = [builder EXCEPT ![b].pc = "done"]
        /\ UNCHANGED <<project, dirs, outFiles, tmpFiles, regFile, regBefore, tasklog, ex, fc>>

(***************************************************************************)
(* buildTask and buildDirTarget.                                           *)
(***************************************************************************)
\* downloader.fetchAndExtract()
Fetch(b) ==
    LET B == builder[b]
    IN  /\ B.pc = "fetch"
        /\ \/ Fail(b, "ERROR_EXTERNAL")
           \/ builder' = [builder EXCEPT ![b].pc = "dir"]
        /\ UNCHANGED <<project, dirs, outFiles, tmpFiles, regFile, regBefore, tasklog, ex, fc>>

\* The target directory as buildDirTarget finds it.
Found(d) == IF d \in DOMAIN dirs THEN dirs[d] ELSE EmptyDir

EmptiedNot(dir) == dir

\* emptyDir(targetDir): the directory is made if it is missing and cleared
\* if it is not.
Emptied(dir) == EmptyDir

\* What the target directory holds once the runtime is in place: the copy
\* of the runtime and, if asked for, the codec.
RuntimeDir(dir, config) ==
    [dir EXCEPT !.runtime = TRUE, !.ffmpeg = @ \/ config.ffmpegIntegration]

\* buildDirTarget up to the first step of its switch: the paths, emptyDir,
\* the copy of the runtime, the codec, ensureDir, and the default branch of
\* the switch.
DirStart(b) ==
    LET B == builder[b]
        d == DirOf(B)
    IN  /\ B.pc = "dir"
        /\ \/ /\ Fail(b, "ERROR_EXTERNAL")
              /\ UNCHANGED dirs
           \/ /\ AppRoot(PlatformOf(B)) = "throw"
              /\ Fail(b, "ERROR_UNKNOWN_PLATFORM")
              /\ UNCHANGED dirs
           \/ /\ AppRoot(PlatformOf(B)) # "throw"
              /\ \/ /\ Fail(b, "ERROR_EXTERNAL")
                    /\ dirs' = Put(dirs, d, Emptied(Found(d)))
                 \/ /\ dirs' = Put(dirs, d, RuntimeDir(Emptied(Found(d)), ManifestOf(B)))
                    /\ IF DirSteps(PlatformOf(B)) = <<"throw">>
                       THEN Fail(b, "ERROR_UNKNOWN_PLATFORM")
                       ELSE builder' = [builder EXCEPT ![b] =
                                          [B EXCEPT !.pc = "step", !.si = 1]]
        /\ UNCHANGED <<project, outFiles, tmpFiles, regFile, regBefore, tasklog, ex, fc>>

\* prepareWinBuild, prepareMacBuild, prepareLinuxBuild
Prepare(b) ==
    LET B == builder[b]
        d == DirOf(B)
    IN  /\ B.pc = "step"
        /\ StepOf(B) \in PrepareSteps
        /\ \/ /\ StepOf(B) # "prepareLinuxBuild"
              /\ Fail(b, "ERROR_EXTERNAL")
              /\ UNCHANGED <<dirs, tasklog>>
           \/ /\ ToStep(b, B)
              /\ dirs' = [dirs EXCEPT ![d].prepared = TRUE]
        /\ UNCHANGED <<project, outFiles, tmpFiles, regFile, regBefore, ex, fc>>

\* The loop that copies every collected file into the resource root.
CopyInto(dir, files) ==
    [dir EXCEPT !.files = [f \in DOMAIN dir.files \cup files |->
                             IF f \in files THEN Content(project, f) ELSE dir.files[f]]]

\* The write of the stripped package.json into the resource root.
WriteManifest(dir, m) ==
    [dir EXCEPT !.files = Put(@, "package.json", StripManifest(Pkg(m), m.strippedProperties))]

\* The files of a temporary archive made by compress.
Payload(files) == [f \in files |-> Content(project, f)]

\* compress() leaves its list file behind.
ListFile(b) == [kind |-> "list", builder |-> b]

Script(b) == [kind |-> "script", builder |-> b]

copyFiles(b) ==
    LET B      == builder[b]
        d      == DirOf(B)
        m      == ManifestOf(B)
        files  == CollectFiles(m)
        branch == IF m.packed THEN PackedBranch(PlatformOf(B)) ELSE "copy"
    IN  /\ B.pc = "step"
        /\ StepOf(B) = "copyFiles"
        /\ \/ \* findExcludableDependencies or globby fails
              /\ Fail(b, "ERROR_EXTERNAL")
              /\ UNCHANGED <<dirs, tmpFiles, tasklog>>
           \/ /\ branch = "throw"
              /\ Fail(b, "ERROR_UNKNOWN_PLATFORM")
              /\ UNCHANGED <<dirs, tmpFiles, tasklog>>
           \/ /\ branch = "copy"
              /\ \/ /\ ToStep(b, B)
                    /\ dirs' = [dirs EXCEPT ![d] = WriteManifest(CopyInto(@, files), m)]
                 \/ \* the write of the manifest fails
                    /\ Fail(b, "ERROR_EXTERNAL")
                    /\ dirs' = [dirs EXCEPT ![d] = CopyInto(@, files)]
                    /\ UNCHANGED tasklog
              /\ UNCHANGED tmpFiles
           \/ /\ branch = "append"
              /\ tmpFiles' = tmpFiles \cup {ListFile(b)}
              /\ \/ \* the archiver ends with code 0; the payload is appended
                    /\ ToStep(b, B)
                    /\ dirs' = [dirs EXCEPT ![d] =
                                  WriteManifest([@ EXCEPT !.payload = Payload(files),
                                                          !.appended = "whole"], m)]
                 \/ \* the archiver ends with another code and leaves a part of
                    \* the archive, which is appended
                    /\ ToStep(b, B)
                    /\ dirs' = [dirs EXCEPT ![d] =
                                  WriteManifest([@ EXCEPT !.appended = "partial"], m)]
                 \/ \* the archiver ends with another code and leaves no archive:
                    \* the read stream of combineExecutable fails
                    /\ Fail(b, "ERROR_EXTERNAL")
                    /\ UNCHANGED <<dirs, tasklog>>
        /\ UNCHANGED <<project, outFiles, regFile, regBefore, ex, fc>>

\* renameWinApp, renameMacApp, renameLinuxApp
Rename(b) ==
    LET B == builder[b]
        d == DirOf(B)
    IN  /\ B.pc = "step"
        /\ StepOf(B) \in RenameSteps
        /\ \/ /\ Fail(b, "ERROR_EXTERNAL")
              /\ UNCHANGED <<dirs, tasklog>>
           \/ /\ ToStep(b, B)
              /\ dirs' = [dirs EXCEPT ![d].renamed = TRUE]
        /\ UNCHANGED <<project, outFiles, tmpFiles, regFile, regBefore, ex, fc>>

(***************************************************************************)
(* The targets of buildTask.                                               *)
(***************************************************************************)
\* The archive of a target directory: `${ basename(sourceDir) }.${ type }`.
ArchiveOf(type, B) ==
    Artifact(type, ManifestOf(B).version, "", PlatformOf(B), ArchOf(B))

\* `${ basename(sourceDir) }-Setup.exe`
SetupOf(B) == Artifact("Setup", ManifestOf(B).version, "", PlatformOf(B), ArchOf(B))

\* `${ pkg.name }-${ toVersion }-from-${ fromVersion }-${ platform }-${ arch }-Update.exe`
UpdateOf(B, fromVersion) ==
    Artifact("Update", ManifestOf(B).version, fromVersion, PlatformOf(B), ArchOf(B))

\* removeAsync(targetArchive)
Removed(files, a) == files \ {a, Partial(a)}

\* What compress can leave at the archive's path: the archive, or, when the
\* archiver ends with a non-zero code (which compress returns and
\* buildArchiveTarget drops), a part of it or nothing.
Compressed(a) == {{a}, {Partial(a)}, {}}

\* case 'zip', case '7z'
buildArchiveTarget(b) ==
    LET B == builder[b]
        a == ArchiveOf(TargetOf(B), B)
    IN  /\ B.pc = "target"
        /\ TargetOf(B) \in {"zip", "7z"}
        /\ \/ /\ Fail(b, "ERROR_EXTERNAL")
              /\ outFiles' = Removed(outFiles, a)
              /\ UNCHANGED <<tmpFiles, tasklog>>
           \/ \E written \in Compressed(a) :
                /\ outFiles' = Removed(outFiles, a) \cup written
                /\ tmpFiles' = tmpFiles \cup {ListFile(b)}
                /\ ToTarget(b, B, B.tg + 1,
                            TargetDone(Made(tasklog, TaskOf(B), {x.kind : x \in written}),
                                       TaskOf(B)))
        /\ UNCHANGED <<project, dirs, regFile, regBefore, ex, fc>>

UnknownTargetSkipped(b) ==
    LET B == builder[b]
    IN  /\ B.pc = "target"
        /\ TargetOf(B) \notin TargetKinds
        /\ ToTarget(b, B, B.tg + 1, tasklog)
        /\ UNCHANGED <<project, dirs, outFiles, tmpFiles, regFile, regBefore, ex, fc>>

\* default: throw new Error('ERROR_UNKNOWN_TARGET')
UnknownTarget(b) ==
    LET B == builder[b]
    IN  /\ B.pc = "target"
        /\ TargetOf(B) \notin TargetKinds
        /\ Fail(b, "ERROR_UNKNOWN_TARGET")
        /\ UNCHANGED <<project, dirs, outFiles, tmpFiles, regFile, regBefore, tasklog, ex, fc>>

\* buildNsisTarget and buildNsis7zTarget on a platform other than 'win'.
SkipNsisTarget(b) ==
    LET B == builder[b]
    IN  /\ B.pc = "target"
        /\ TargetOf(B) \in {"nsis", "nsis7z"}
        /\ ~NsisRuns(PlatformOf(B))
        /\ ToTarget(b, B, B.tg + 1, TargetDone(tasklog, TaskOf(B)))
        /\ UNCHANGED <<project, dirs, outFiles, tmpFiles, regFile, regBefore, ex, fc>>

\* The registry object is made and loaded, and the script text is composed.
BeginInstaller(B) ==
    [B EXCEPT !.pc = "nsis_compile", !.versionInfo = regFile, !.queue = <<>>,
              !.saves = 0, !.regAtBegin = regFile]

\* buildNsisTarget up to the script: new NsisVersionInfo, NsisComposer.make().
BeginNsisTarget(b) ==
    LET B == builder[b]
    IN  /\ B.pc = "target"
        /\ TargetOf(B) = "nsis"
        /\ NsisRuns(PlatformOf(B))
        /\ \/ Fail(b, "ERROR_EXTERNAL")
           \/ builder' = [builder EXCEPT ![b] = BeginInstaller(B)]
        /\ UNCHANGED <<project, dirs, outFiles, tmpFiles, regFile, regBefore, tasklog, ex, fc>>

\* buildNsis7zTarget up to the script: the 7z snapshot, new NsisVersionInfo,
\* Nsis7Zipper.make().
BeginNsis7zTarget(b) ==
    LET B == builder[b]
        a == ArchiveOf("7z", B)
    IN  /\ B.pc = "target"
        /\ TargetOf(B) = "nsis7z"
        /\ NsisRuns(PlatformOf(B))
        /\ \/ /\ Fail(b, "ERROR_EXTERNAL")
              /\ outFiles' = Removed(outFiles, a)
              /\ UNCHANGED <<tmpFiles, tasklog>>
           \/ \E written \in Compressed(a) :
                /\ outFiles' = Removed(outFiles, a) \cup written
                /\ tmpFiles' = tmpFiles \cup {ListFile(b)}
                /\ tasklog' = Made(tasklog, TaskOf(B), {x.kind : x \in written})
                /\ \/ Fail(b, "ERROR_EXTERNAL")
                   \/ builder' = [builder EXCEPT ![b] = BeginInstaller(B)]
        /\ UNCHANGED <<project, dirs, regFile, regBefore, ex, fc>>

CompileInstallerSwallows(b) ==
    LET B == builder[b]
    IN  /\ B.pc = "nsis_compile"
        /\ builder' = [builder EXCEPT ![b].pc = "nsis_record"]
        /\ \/ /\ tmpFiles' = tmpFiles \cup {Script(b)}
              /\ UNCHANGED <<outFiles, tasklog>>
           \/ /\ outFiles' = outFiles \cup {SetupOf(B)}
              /\ tasklog' = Made(tasklog, TaskOf(B), {"Setup"})
              /\ UNCHANGED tmpFiles
        /\ UNCHANGED <<project, dirs, regFile, regBefore, ex, fc>>

\* The script is written, nsisBuild compiles it, the script is removed.
CompileInstaller(b) ==
    LET B == builder[b]
    IN  /\ B.pc = "nsis_compile"
        /\ \/ \* nsisBuild fails: the line that removes the script is not reached
              /\ Fail(b, "ERROR_EXTERNAL")
              /\ tmpFiles' = tmpFiles \cup {Script(b)}
              /\ UNCHANGED <<outFiles, tasklog>>
           \/ /\ builder' = [builder EXCEPT ![b].pc = "nsis_record"]
              /\ outFiles' = outFiles \cup {SetupOf(B)}
              /\ tasklog' = Made(tasklog, TaskOf(B), {"Setup"})
              /\ UNCHANGED tmpFiles
        /\ UNCHANGED <<project, dirs, regFile, regBefore, ex, fc>>

\* addVersion, addInstaller, and the list the updater loop iterates.
RecordInstaller(b) ==
    LET B    == builder[b]
        m    == ManifestOf(B)
        data == addInstaller(addVersion(B.versionInfo, m.version, DirOf(B)),
                             m.version, ArchOf(B), SetupOf(B))
    IN  /\ B.pc = "nsis_record"
        /\ builder' = [builder EXCEPT ![b] =
                         [B EXCEPT !.pc = "nsis_updaters",
                                   !.versionInfo = data,
                                   !.queue = IF m.diffUpdaters
                                             THEN UpdaterSources(m.version, getVersions(data))
                                             ELSE <<>>]]
        /\ UNCHANGED <<project, dirs, outFiles, tmpFiles, regFile, regBefore, tasklog, ex, fc>>

\* One pass of the updater loop: buildNsisDiffUpdater for the next version.
buildNsisDiffUpdater(b) ==
    LET B           == builder[b]
        fromVersion == Head(B.queue)
        toVersion   == ManifestOf(B).version
        diffNsis    == UpdateOf(B, fromVersion)
        fromDir     == B.versionInfo[fromVersion].source
        toDir       == B.versionInfo[toVersion].source
    IN  /\ B.pc = "nsis_updaters"
        /\ B.queue # <<>>
        /\ \/ \* NsisDiffer.make() fails
              /\ Fail(b, "ERROR_EXTERNAL")
              /\ UNCHANGED <<outFiles, tmpFiles, tasklog>>
           \/ \* nsisBuild fails
              /\ Fail(b, "ERROR_EXTERNAL")
              /\ tmpFiles' = tmpFiles \cup {Script(b)}
              /\ UNCHANGED <<outFiles, tasklog>>
           \/ /\ builder' = [builder EXCEPT ![b] =
                               [B EXCEPT !.queue = Tail(B.queue),
                                         !.versionInfo =
                                            addUpdater(B.versionInfo, ManifestOf(B).version,
                                                       fromVersion, ArchOf(B), diffNsis)]]
              /\ outFiles' = outFiles \cup {diffNsis}
              /\ tasklog' = Diffed(Made(tasklog, TaskOf(B), {"Update"}), TaskOf(B),
                                   [from |-> fromVersion, to |-> toVersion,
                                    arch |-> ArchOf(B), fromDir |-> fromDir,
                                    toDir |-> toDir])
              /\ UNCHANGED tmpFiles
        /\ UNCHANGED <<project, dirs, regFile, regBefore, ex, fc>>

SaveDueAnyTime(B) == TRUE

\* versionInfo.save() follows the updater loop.
SaveDue(B) == B.queue = <<>>

\* The end of the installer target: versionInfo.save().
SaveRegistry(b) ==
    LET B == builder[b]
    IN  /\ B.pc = "nsis_updaters"
        /\ SaveDue(B)
        /\ \/ /\ Fail(b, "ERROR_EXTERNAL")
              /\ UNCHANGED <<regFile, tasklog>>
           \/ /\ ToTarget(b, [B EXCEPT !.saves = B.saves + 1], B.tg + 1,
                          TargetDone(Made(tasklog, TaskOf(B), {"registry"}), TaskOf(B)))
              /\ regFile' = B.versionInfo
        /\ UNCHANGED <<project, dirs, outFiles, tmpFiles, regBefore, ex, fc>>

(***************************************************************************)
(* The specifications.                                                     *)
(***************************************************************************)
\* One step of builder b.
Step(b) ==
    \/ Build(b)
    \/ ReadManifest(b)
    \/ Join(b)
    \/ Fetch(b)
    \/ DirStart(b)
    \/ Prepare(b)
    \/ copyFiles(b)
    \/ Rename(b)
    \/ buildArchiveTarget(b)
    \/ UnknownTarget(b)
    \/ SkipNsisTarget(b)
    \/ BeginNsisTarget(b)
    \/ BeginNsis7zTarget(b)
    \/ CompileInstaller(b)
    \/ RecordInstaller(b)
    \/ buildNsisDiffUpdater(b)
    \/ SaveRegistry(b)

Next == \E b \in Builders : Step(b)

\* Every run begins with a call of build().
Spec == Init /\ [][Next]_vars

\* A subclass has read the manifest and called buildTask(platform, arch, pkg,
\* config) itself, with any spelling of the platform.
InitDirect ==
    \E platform \in Tokens, arch \in Archs, m \in BundleManifests \cup PlanManifests :
        /\ builder = [b \in Builders |->
                        IF b = 0
                        THEN [NewBuilder(DEFAULT_OPTIONS, 0) EXCEPT
                                !.tasks = <<<<platform, arch>>>>, !.ti = 1,
                                !.pkgFile = "package.json", !.pc = "fetch"]
                        ELSE NoBuilder]
        /\ InitShared(m, EmptyRegistry)
        /\ tasklog = Entered(<<>>, <<platform, arch>>)
        /\ ex = NoExtract
        /\ fc = NoCollect

\* The runs of Spec and the runs that begin with a direct call of buildTask.
SpecDirect == (Init \/ InitDirect) /\ [][Next]_vars

(***************************************************************************)
(* util/archive.ts: extractGeneric, extractTarGz and extract.  File names  *)
(* are strings; the destination is the set of the names of its files.      *)
(***************************************************************************)
\* The branch extractGeneric takes for an archive name.
ExtractBranch(archive) ==
    IF EndsWith(archive, ".zip") THEN "zip"
    ELSE IF EndsWith(archive, "tar.gz") THEN "tar.gz"
    ELSE "throw"

\* basename(archive.slice(0, -3)): the file the gzip layer unwraps to.
TarOf(archive) == SubSeq(archive, 1, Len(archive) - 3)

\* The files an archive of the model unpacks to.
Members == {"nw", "lib/ffmpeg.so"}

\* The archiver run of extract(): 7za x -y -ao(a|s) -o<dest> <file>.
Spawn(file, overwrite) == [file |-> file, ao |-> IF overwrite THEN "a" ELSE "s"]

\* The errors extract() throws for the exit codes other than 0.
ExtractErrors == {"ERROR_PATH_NOT_FOUND", "ERROR_EXIT_CODE"}

ArchiveNames ==
    {"nw.zip", "nw.tar.gz", "archive.rar", "avatar.gz", "nw.tgz", "nw.tar", "nw.gz", ".zip"}

\* extractGeneric(archive, dest, options) up to its first await: the choice
\* of the branch and the first run of the archiver.
ExtractGeneric ==
    /\ ex.pc = "start"
    /\ CASE ExtractBranch(ex.archive) = "zip" ->
              LET run == [ex EXCEPT !.spawned = Append(@, Spawn(ex.archive, ex.overwrite))]
              IN  \/ ex' = [run EXCEPT !.pc = "returned", !.dest = @ \cup Members]
                  \/ \E e \in ExtractErrors : ex' = [run EXCEPT !.pc = "failed", !.err = e]
         [] ExtractBranch(ex.archive) = "tar.gz" ->
              LET run == [ex EXCEPT !.spawned = Append(@, Spawn(ex.archive, FALSE))]
              IN  \/ ex' = [run EXCEPT !.pc = "untar", !.dest = @ \cup {TarOf(ex.archive)}]
                  \/ \E e \in ExtractErrors : ex' = [run EXCEPT !.pc = "failed", !.err = e]
         [] OTHER ->
              ex' = [ex EXCEPT !.pc = "failed", !.err = "ERROR_UNKNOWN_EXTENSION"]
    /\ UNCHANGED <<buildVars, fc>>

\* extractTarGz: the extraction of the inner tar.
ExtractInnerTar ==
    /\ ex.pc = "untar"
    /\ LET run == [ex EXCEPT !.spawned = Append(@, Spawn(TarOf(ex.archive), FALSE))]
       IN  \/ ex' = [run EXCEPT !.pc = "rmtar", !.dest = @ \cup Members]
           \/ \E e \in ExtractErrors : ex' = [run EXCEPT !.pc = "failed", !.err = e]
    /\ UNCHANGED <<buildVars, fc>>

\* removeAsync(tar)
RemoveTar(dest, tar) == dest \ {tar}

\* extractTarGz: the removal of the inner tar, and the return.
RemoveInnerTar ==
    /\ ex.pc = "rmtar"
    /\ \/ ex' = [ex EXCEPT !.pc = "returned", !.dest = RemoveTar(@, TarOf(ex.archive))]
       \/ ex' = [ex EXCEPT !.pc = "failed", !.err = "ERROR_EXTERNAL"]
    /\ UNCHANGED <<buildVars, fc>>

\* A call of extractGeneric on an archive of any name, into a destination
\* that may hold files of an earlier extraction.
InitExtract ==
    \E archive \in ArchiveNames, overwrite \in BOOLEAN,
       dest \in SUBSET {"nw", "nw.tar", "avatar", "old.txt"} :
        /\ ex = [NoExtract EXCEPT !.pc = "start", !.archive = archive,
                                  !.overwrite = overwrite, !.dest = dest]
        /\ builder = [b \in Builders |-> NoBuilder]
        /\ InitShared(BaseManifest, EmptyRegistry)
        /\ tasklog = <<>>
        /\ fc = NoCollect

NextExtract == ExtractGeneric \/ ExtractInnerTar \/ RemoveInnerTar

SpecExtract == InitExtract /\ [][NextExtract]_vars

(***************************************************************************)
(* The file collection of copyFiles, on its own.                           *)
(***************************************************************************)
IncludePatterns == {"**/*", "*.html", "*.json", "dist/**/*"}

ExcludePatterns == {"*.json", "index.html"}

\* The lists of one to three different patterns.
PatternLists ==
    {ps \in UNION {[1..n -> IncludePatterns] : n \in 1..3} :
        \A i, j \in DOMAIN ps : i # j => ps[i] # ps[j]}

\* copyFiles up to the list of the files: the ignore list and globby.
Collect ==
    /\ fc.pc = "start"
    /\ fc' = [fc EXCEPT !.pc = "done", !.result = globby(fc.files, IgnoreOf(fc))]
    /\ UNCHANGED <<buildVars, ex>>

\* The same collection, made a second time on the same project.
CollectAgain ==
    /\ fc.pc = "done"
    /\ fc' = [fc EXCEPT !.pc = "again", !.again = globby(fc.files, IgnoreOf(fc))]
    /\ UNCHANGED <<buildVars, ex>>

InitCollect ==
    \E files \in PatternLists, excludes \in SUBSET ExcludePatterns, output \in {"dist", "out"} :
        /\ fc = [NoCollect EXCEPT !.pc = "start", !.files = files, !.excludes = excludes,
                                  !.output = output]
        /\ ex = NoExtract
        /\ builder = [b \in Builders |-> NoBuilder]
        /\ InitShared(BaseManifest, EmptyRegistry)
        /\ tasklog = <<>>

NextCollect == Collect \/ CollectAgain

SpecCollect == InitCollect /\ [][NextCollect]_vars

(***************************************************************************)
(* Properties.                                                             *)
(***************************************************************************)
Range(f) == {f[x] : x \in DOMAIN f}

Top == builder[0]

Platforms == Range(PlatformOrder)

\* The cross product of the platforms and the architectures whose flags are set.
CrossProduct(o) == {p \in Platforms : o[p]} \X {a \in Archs : o[a]}

\* The tasks buildTask has been entered for.
Started == {t \in DOMAIN tasklog : tasklog[t].runs > 0}

SubBuilders == {c \in Builders \ {0} : builder[c].pc # "none"}

\* C1: the tasks build() runs are exactly the cross product of the enabled
\* platforms and the enabled architectures: no other task is ever started,
\* the task list of a build that got past planning is the cross product,
\* and a finished build has started every task of it.  When the cross
\* product is empty, build() fails with ERROR_NO_TASK at once: no manifest
\* was read, no sub-build made, no task started.
C1_TaskMatrix ==
    LET X == CrossProduct(Top.options)
    IN  /\ Started \subseteq X
        /\ Top.pc \notin {"new", "failed"} => Range(Top.tasks) = X
        /\ Top.pc = "done" => Started = X
        /\ (X = {} /\ Top.pc # "new") =>
              /\ Top.pc = "failed" /\ Top.err = "ERROR_NO_TASK" /\ Top.at = "new"
              /\ Top.pkgFile = "" /\ SubBuilders = {} /\ Started = {}
        /\ Top.err = "ERROR_NO_TASK" => X = {}

\* A build of all six tasks has finished.
C1_Witness == Top.pc = "done" /\ Cardinality(Started) = 6

\* A build with an empty matrix has failed.
C1_WitnessEmpty == Top.err = "ERROR_NO_TASK"

\* A target directory holds project files or a payload.
HasFiles(dir) == dir.files # <<>> \/ dir.appended # "none"

\* copyFiles has run to its end on a target directory: its last act is the
\* write of package.json.
CopyComplete(dir) == "package.json" \in DOMAIN dir.files

\* C2: in every target directory, of every platform spelling, files are
\* present only if the prepare step has finished and the rename has happened
\* only if copyFiles ran to its end; a builder that is about to copy has
\* prepared, one that is about to rename has copied; and when a step fails,
\* the later steps have not acted on the directory.
C2_PrepareCopyRename ==
    /\ \A d \in DOMAIN dirs :
          /\ HasFiles(dirs[d]) => dirs[d].prepared
          /\ dirs[d].renamed => dirs[d].prepared /\ CopyComplete(dirs[d])
    /\ \A b \in Builders :
          LET B == builder[b]
          IN  B.si > 0 =>
                /\ (B.pc = "step" /\ StepOf(B) = "copyFiles") =>
                      dirs[DirOf(B)].prepared /\ ~HasFiles(dirs[DirOf(B)])
                /\ (B.pc = "step" /\ StepOf(B) \in RenameSteps) =>
                      CopyComplete(dirs[DirOf(B)]) /\ ~dirs[DirOf(B)].renamed
                /\ (B.pc = "failed" /\ B.at = "step" /\ StepOf(B) \in PrepareSteps) =>
                      ~HasFiles(dirs[DirOf(B)]) /\ ~dirs[DirOf(B)].renamed
                /\ (B.pc = "failed" /\ B.at = "step" /\ StepOf(B) = "copyFiles") =>
                      ~dirs[DirOf(B)].renamed

\* A packed bundle was finished for a platform given by an alias.
C2_Witness ==
    \E d \in DOMAIN dirs :
        /\ d[2] = "win32"
        /\ dirs[d].appended = "whole"
        /\ dirs[d].renamed /\ dirs[d].prepared /\ CopyComplete(dirs[d])

TargetPhase == {"target", "nsis_compile", "nsis_record", "nsis_updaters"}

\* buildDirTarget has populated a target directory.
Populated(dir) == dir.runtime /\ dir.prepared /\ CopyComplete(dir) /\ dir.renamed

\* C3: a builder is at a target of a task only when buildDirTarget has
\* returned for that task and the target directory is populated; a target
\* was completed or a file written for a task only if its buildDirTarget had
\* returned; and a task that failed before that has no target, no file and
\* no registry write.
C3_DirBeforeTargets ==
    /\ \A b \in Builders :
          LET B == builder[b]
          IN  /\ B.pc \in TargetPhase =>
                    /\ LogOf(tasklog, TaskOf(B)).dir
                    /\ DirOf(B) \in DOMAIN dirs /\ Populated(dirs[DirOf(B)])
              /\ (B.pc \in {"fetch", "dir", "step"}
                    \/ (B.pc = "failed" /\ B.at \in {"fetch", "dir", "step"})) =>
                    /\ ~LogOf(tasklog, TaskOf(B)).dir
                    /\ LogOf(tasklog, TaskOf(B)).made = {}
                    /\ LogOf(tasklog, TaskOf(B)).targets = 0
    /\ \A t \in DOMAIN tasklog :
          (tasklog[t].made # {} \/ tasklog[t].targets > 0) => tasklog[t].dir

\* An archive and an installer were written for a task.
C3_Witness == \E t \in DOMAIN tasklog : {"zip", "Setup"} \subseteq tasklog[t].made

\* copyFiles has run to its end for the current task of a builder.
AfterCopy(B) ==
    \/ B.pc = "step" /\ StepOf(B) \in RenameSteps
    \/ B.pc \in TargetPhase

\* The copies of the project manifest in the bundle of a builder's task: the
\* package.json of the resource root, the manifest file where it was copied
\* as a project file, and the manifest file inside an appended payload.
ShippedManifests(B) ==
    LET dir == dirs[DirOf(B)]
    IN  {dir.files[f] : f \in {"package.json", B.pkgFile} \cap DOMAIN dir.files}
            \cup {dir.payload[f] : f \in {B.pkgFile} \cap DOMAIN dir.payload}

\* C4: once copyFiles has run, every copy of the project manifest in the
\* bundle, the one inside an appended payload included, has no key of
\* strippedProperties and has every other key of the manifest with its value.
C4_ManifestStripped ==
    \A b \in Builders :
        LET B   == builder[b]
            pkg == Pkg(ManifestOf(B))
        IN  (B.ti > 0 /\ AfterCopy(B)) =>
                \A copy \in ShippedManifests(B) :
                    /\ DOMAIN copy \cap ManifestOf(B).strippedProperties = {}
                    /\ \A k \in DOMAIN pkg \ ManifestOf(B).strippedProperties :
                          k \in DOMAIN copy /\ copy[k] = pkg[k]

\* What the code does keep: the package.json written into the resource root
\* is the stripped manifest.
C4_WrittenManifestStripped ==
    \A b \in Builders :
        LET B == builder[b]
        IN  (B.ti > 0 /\ AfterCopy(B)) =>
                dirs[DirOf(B)].files["package.json"] =
                    StripManifest(Pkg(ManifestOf(B)), ManifestOf(B).strippedProperties)

InstallerPhase == {"nsis_compile", "nsis_record", "nsis_updaters"}

\* The place of a version in semantic-version order.
VersionRank(v) ==
    CASE v = "1.0.0" -> 1 [] v = "1.1.0-beta" -> 2 [] v = "1.1.0" -> 3

\* The from-versions for which an entry of a registry records an updater of
\* architecture arch to version v.
UpdatersFrom(data, v, arch) ==
    IF v \in DOMAIN data
    THEN {k[1] : k \in {x \in DOMAIN data[v].updaters : x[2] = arch}}
    ELSE {}

\* The from-versions an installer target of builder B has to build updaters
\* from: with diffUpdaters, the versions of the registry it loaded that are
\* strictly less than the version under build.
ExpectedFrom(B) ==
    IF ManifestOf(B).diffUpdaters
    THEN {v \in DOMAIN B.regAtBegin : VersionRank(v) < VersionRank(ManifestOf(B).version)}
    ELSE {}

\* C5: while an installer target runs its updater loop, the from-versions
\* recorded for the version and architecture under build, together with
\* those still to come, are exactly the versions of the loaded registry
\* strictly less than the version under build (none when diffUpdaters is
\* off), and exactly the recorded ones have an Update.exe; so when the loop
\* ends the updaters built and recorded are exactly those.
C5_UpdatersFromOlder ==
    \A b \in Builders :
        LET B        == builder[b]
            V        == ManifestOf(B).version
            recorded == UpdatersFrom(B.versionInfo, V, ArchOf(B))
            before   == UpdatersFrom(B.regAtBegin, V, ArchOf(B))
            built    == {a.from : a \in {x \in outFiles :
                            /\ x.kind = "Update" /\ x.version = V
                            /\ x.platform = PlatformOf(B) /\ x.arch = ArchOf(B)}}
        IN  B.pc = "nsis_updaters" =>
              /\ recorded \cup Range(B.queue) = before \cup ExpectedFrom(B)
              /\ recorded \cap Range(B.queue) = {}
              /\ built = recorded

\* The updater loop has ended for a build of 1.1.0-beta against a registry
\* that holds an older and a newer version: one updater, from the older.
C5_Witness ==
    \E b \in Builders :
        /\ builder[b].pc = "nsis_updaters" /\ builder[b].queue = <<>>
        /\ ManifestOf(builder[b]).version = "1.1.0-beta"
        /\ DOMAIN builder[b].regAtBegin = {"1.0.0", "1.1.0"}
        /\ UpdatersFrom(builder[b].versionInfo, "1.1.0-beta", ArchOf(builder[b])) = {"1.0.0"}

\* No builder but b can write the registry file.
Alone(b) == SubBuilders \subseteq {b}

C6_Inv ==
    \A b \in Builders :
        LET B == builder[b]
        IN  /\ B.saves <= 1
            /\ (B.pc \in InstallerPhase \/ (B.pc = "failed" /\ B.at \in InstallerPhase)) =>
                  /\ B.saves = 0
                  /\ Alone(b) => regFile = B.regAtBegin

C6_Act ==
    /\ regFile' # regFile =>
          \E b \in Builders :
              LET B == builder[b]
              IN  /\ B.pc = "nsis_updaters" /\ B.queue = <<>> /\ B.saves = 0
                  /\ SetupOf(B) \in outFiles
                  /\ \A v \in ExpectedFrom(B) : UpdateOf(B, v) \in outFiles
                  /\ builder'[b].pc # "failed" /\ builder'[b].saves = 1
                  /\ regFile' = B.versionInfo
    /\ \A b \in Builders :
          (builder[b].pc # "failed" /\ builder'[b].pc = "failed") => regFile' = regFile

\* C6: an installer target writes the registry file at most once, in a step
\* taken when its installer and all its updaters exist; no step that fails
\* writes it; and an installer target that failed has not written it, so
\* that, no other builder writing, the file is as it was when the target
\* began.
C6_RegistryWrittenLast == []C6_Inv /\ [][C6_Act]_vars

\* An installer target failed in its updater loop after it had built an
\* updater: the updater stays, the registry file is as before.
C6_Witness ==
    \E b \in Builders :
        LET B == builder[b]
        IN  /\ B.pc = "failed" /\ B.at = "nsis_updaters"
            /\ \E a \in outFiles : a.kind = "Update" /\ a.arch = ArchOf(B)
            /\ regFile = B.regAtBegin /\ regFile # EmptyRegistry

\* The builder that runs the only task of a build with a one-task matrix.
Runner == IF Top.options.concurrent THEN builder[1] ELSE Top

\* A build of one Windows task with an installer target and no prior
\* registry has finished.
OneWindowsInstallerBuilt ==
    /\ Top.pc = "done"
    /\ Len(Top.tasks) = 1 /\ Top.tasks[1][1] = "win"
    /\ regBefore = EmptyRegistry
    /\ \E i \in DOMAIN ManifestOf(Runner).targets :
          ManifestOf(Runner).targets[i] \in {"nsis", "nsis7z"}

\* C7: after such a build there is exactly one target directory, the task's,
\* and exactly one Setup installer, the task's, and the registry file holds
\* an entry for the built version, and only that, whose installers have
\* exactly the key of the task's architecture and whose updaters are empty.
C7_OneInstallerNoUpdaters ==
    OneWindowsInstallerBuilt =>
        LET V == ManifestOf(Runner).version
            A == Top.tasks[1][2]
        IN  /\ DOMAIN dirs = {TargetDir(V, "win", A)}
            /\ Populated(dirs[TargetDir(V, "win", A)])
            /\ {a \in outFiles : a.kind = "Setup"} = {Artifact("Setup", V, "", "win", A)}
            /\ DOMAIN regFile = {V}
            /\ DOMAIN regFile[V].installers = {A}
            /\ regFile[V].installers[A] = Artifact("Setup", V, "", "win", A)
            /\ regFile[V].updaters = <<>>

\* Such a build, with differential updaters on, has finished for x64.
C7_Witness ==
    /\ OneWindowsInstallerBuilt
    /\ Top.tasks[1][2] = "x64"
    /\ ManifestOf(Runner).diffUpdaters

IsWindows(platform) == platform = "win"

\* Builder b is at an installer target of a task whose platform is not Windows.
AtForeignInstaller(b) ==
    /\ builder[b].pc = "target"
    /\ TargetOf(builder[b]) \in {"nsis", "nsis7z"}
    /\ ~IsWindows(PlatformOf(builder[b]))

C8_Inv ==
    \A b \in Builders :
        LET B == builder[b]
        IN  /\ B.pc \in InstallerPhase => IsWindows(PlatformOf(B))
            /\ (B.ti > 0 /\ B.pkgFile # "" /\ ~IsWindows(PlatformOf(B))) =>
                  LogOf(tasklog, TaskOf(B)).made \subseteq
                      {"zip", "7z"} \cap Range(ManifestOf(B).targets)

C8_Act ==
    \A b \in Builders :
        (AtForeignInstaller(b) /\ builder'[b] # builder[b]) =>
            /\ builder'[b].pc # "failed"
            /\ builder'[b].versionInfo = builder[b].versionInfo
            /\ builder'[b].regAtBegin = builder[b].regAtBegin
            /\ UNCHANGED <<dirs, outFiles, tmpFiles, regFile>>
            /\ LogOf(tasklog', TaskOf(builder[b])).made = LogOf(tasklog, TaskOf(builder[b])).made

MatrixRank(t) ==
    (CASE t[1] = "win" -> 0 [] t[1] = "mac" -> 2 [] t[1] = "linux" -> 4)
    + (IF t[2] = "x86" THEN 0 ELSE 1)

\* Every step of task t has completed: its directory target and each of the
\* targets its manifest names.
Completed(t, manifest) ==
    /\ LogOf(tasklog, t).dir
    /\ LogOf(tasklog, t).targets = Len(manifest.targets)

\* C9: in sequential mode the one builder takes its tasks in the order win,
\* mac, linux and within a platform x86, x64; it makes no sub-build; every
\* task before the one it is at has completed its directory target and all
\* of its targets, in one run; no task after the one it is at has started;
\* so at most one started task is short of completion.
C9_SequentialOrder ==
    (~Top.options.concurrent) =>
        /\ SubBuilders = {}
        /\ \A i, j \in DOMAIN Top.tasks :
              i < j => MatrixRank(Top.tasks[i]) < MatrixRank(Top.tasks[j])
        /\ Top.ti > 0 =>
              /\ \A j \in DOMAIN Top.tasks :
                    /\ j < Top.ti => /\ Completed(Top.tasks[j], ManifestOf(Top))
                                     /\ LogOf(tasklog, Top.tasks[j]).runs = 1
                    /\ j > Top.ti => Top.tasks[j] \notin Started
                    /\ (j = Top.ti /\ Top.pc = "done") =>
                          Completed(Top.tasks[j], ManifestOf(Top))
              /\ Cardinality({t \in Started : ~Completed(t, ManifestOf(Top))}) <= 1
        /\ Top.ti = 0 => Started = {}

\* A sequential build of all six tasks, each with two targets, has finished.
C9_Witness ==
    /\ ~Top.options.concurrent
    /\ Top.pc = "done"
    /\ Len(Top.tasks) = 6
    /\ Len(ManifestOf(Top).targets) = 2

\* C10: in concurrent mode each task of the matrix has its own sub-build,
\* whose options enable the task's platform and architecture and no other
\* and switch concurrency off; a sub-build's task list is that one task, it
\* makes no sub-build of its own and never waits for one; no task is ever
\* entered twice; and when the build has finished every task of the matrix
\* has been run once, to completion.
C10_ConcurrentSubBuilds ==
    /\ \A t \in DOMAIN tasklog : tasklog[t].runs <= 1
    /\ \A c \in SubBuilders :
          LET S == builder[c]
          IN  /\ S.parent = 0 /\ Top.options.concurrent
              /\ c \in DOMAIN Top.tasks
              /\ ~S.options.concurrent
              /\ {p \in Platforms : S.options[p]} = {Top.tasks[c][1]}
              /\ {a \in Archs : S.options[a]} = {Top.tasks[c][2]}
              /\ S.pc # "join"
              /\ S.pc \notin {"new", "failed"} => S.tasks = <<Top.tasks[c]>>
              /\ S.pc = "done" => Completed(Top.tasks[c], ManifestOf(S))
    /\ (Top.options.concurrent /\ Top.pc \notin {"new", "failed"}) =>
          /\ SubBuilders = DOMAIN Top.tasks
          /\ Top.ti = 0
    /\ (Top.options.concurrent /\ Top.pc = "done") =>
          \A i \in DOMAIN Top.tasks : LogOf(tasklog, Top.tasks[i]).runs = 1

\* A concurrent build of two tasks has finished.
C10_Witness ==
    /\ Top.options.concurrent
    /\ Top.pc = "done"
    /\ Len(Top.tasks) = 2
    /\ \A c \in 1..2 : builder[c].pc = "done"

\* Sub-build c is in flight: constructed, and neither finished nor failed.
InFlight(c) == c \in SubBuilders /\ builder[c].pc \notin {"done", "failed"}

\* Every sub-build in flight can take its next step, whatever has become of
\* its siblings and of the build that made it.
C11_Inv == \A c \in Builders : InFlight(c) => ENABLED Step(c)

\* The step in which builder c fails, or in which the build that waits for
\* the sub-builds rejects, leaves every other sub-build as it is, and leaves
\* the registry file and every target directory but the failing task's own
\* as they are; a sub-build only ever fails in a step of its own pipeline.
C11_Act ==
    \A c \in Builders :
        (builder[c].pc # "failed" /\ builder'[c].pc = "failed") =>
            /\ \A s \in SubBuilders \ {c} : builder'[s] = builder[s]
            /\ c # 0 => builder'[c].at = builder[c].pc /\ builder[c].pc # "join"
            /\ regFile' = regFile
            /\ \A d \in DOMAIN dirs :
                  (builder[c].ti = 0 \/ d # DirOf(builder[c])) =>
                      d \in DOMAIN dirs' /\ dirs'[d] = dirs[d]

\* C11: in concurrent mode the failure of one task's pipeline, and the
\* rejection of the build that follows from it, cancel no sibling and change
\* nothing of a sibling: every sibling in flight keeps its state and its
\* directory and can go on with its next step.
C11_SiblingsUnaffected == []C11_Inv /\ [][C11_Act]_vars

\* One sub-build has failed, the build has rejected, and the sibling is in
\* flight at its targets.
C11_Witness ==
    /\ Top.pc = "failed" /\ Top.at = "join"
    /\ builder[1].pc = "failed"
    /\ builder[2].pc = "target"

\* The tasks of the build that have loaded the registry file for an installer
\* target in progress, or have written it.
RegistryUsers ==
    {t \in DOMAIN tasklog : "registry" \in tasklog[t].made}
        \cup {TaskOf(builder[c]) : c \in {x \in Builders : builder[x].pc \in InstallerPhase}}

\* The registry file is loaded or written by at most one task of a
\* concurrent build.
C12_RegistryOneTask == Top.options.concurrent => Cardinality(RegistryUsers) <= 1

\* A step of a builder at a task writes no target directory but the task's
\* own, no archive, installer or updater but those named after the task, and
\* no temporary file but its own.
C12_OwnPaths ==
    \A c \in Builders :
        (builder'[c] # builder[c] /\ builder[c].ti > 0) =>
            LET t == TaskOf(builder[c])
            IN  /\ \A d \in DOMAIN dirs \cup DOMAIN dirs' :
                      (d \notin DOMAIN dirs \/ d \notin DOMAIN dirs' \/ dirs'[d] # dirs[d])
                          => d = DirOf(builder[c])
                /\ \A a \in (outFiles' \ outFiles) \cup (outFiles \ outFiles') :
                      <<a.platform, a.arch>> = t
                /\ \A f \in (tmpFiles' \ tmpFiles) \cup (tmpFiles \ tmpFiles') :
                      f.builder = c

\* C12: in a concurrent build no path that one task writes is written, or
\* read and then written, by another task: each task's steps touch only its
\* own target directory, its own archives, installers, updaters and
\* temporary files, and the registry file is used by one task at most.
C12_NoSharedState == []C12_RegistryOneTask /\ [][C12_OwnPaths]_vars

\* What holds of the paths other than the registry file: every step writes
\* only the paths of its own task.
C12_OwnPathsOnly == [][C12_OwnPaths]_vars

\* Two tasks of one concurrent build have each written the registry file.
C12_TwoWriters ==
    /\ Top.options.concurrent
    /\ Cardinality({t \in DOMAIN tasklog : "registry" \in tasklog[t].made}) = 2

\* C13: between the steps of a builder no installer script of its exists:
\* the script written for a compile (of the installer, the self-extracting
\* installer or an updater) is gone once the compile has ended, whether the
\* compiler succeeded or failed.
C13_ScriptRemoved == \A b \in Builders : Script(b) \notin tmpFiles

\* What holds: a script is left only by a builder that failed in a compile.
C13_ScriptLeftOnlyByFailure ==
    \A b \in Builders :
        Script(b) \in tmpFiles =>
            /\ builder[b].pc = "failed"
            /\ builder[b].at \in {"nsis_compile", "nsis_updaters"}

\* A builder whose installer compile failed has left its script.
C13_ScriptLeft ==
    \E b \in Builders :
        /\ builder[b].pc = "failed" /\ builder[b].at = "nsis_compile"
        /\ Script(b) \in tmpFiles

\* C14: when the archiver ends with a non-zero code, the task stops there:
\* a payload the archiver did not finish is never appended to the
\* executable, and whenever an unfinished archive lies under the output
\* directory, the builder of its task has failed at that target.
C14_ArchiverFailureAborts ==
    /\ \A d \in DOMAIN dirs : dirs[d].appended # "partial"
    /\ \A a \in outFiles :
          ~a.whole =>
              \E b \in Builders :
                  /\ builder[b].pc = "failed" /\ builder[b].at = "target"
                  /\ TaskOf(builder[b]) = <<a.platform, a.arch>>

\* The archiver failed on the payload, and the task went on to its rename.
C14_WentOn ==
    \E b \in Builders :
        /\ builder[b].pc = "step" /\ StepOf(builder[b]) \in RenameSteps
        /\ dirs[DirOf(builder[b])].appended = "partial"

\* C15: a call of extractGeneric on a name ending in .zip runs the archiver
\* once, on the archive, and returns unless the archiver fails; on a name
\* ending in .tar.gz it runs the archiver on the archive and then on the
\* inner tar, and when it has returned the inner tar is not in the
\* destination; on any other name it fails with ERROR_UNKNOWN_EXTENSION and
\* has not run the archiver.
C15_ExtractGeneric ==
    ex.pc \notin {"none", "start"} =>
        /\ EndsWith(ex.archive, ".zip") =>
              /\ Len(ex.spawned) = 1 /\ ex.spawned[1].file = ex.archive
              /\ ex.pc = "returned" \/ (ex.pc = "failed" /\ ex.err \in ExtractErrors)
        /\ (EndsWith(ex.archive, ".tar.gz") /\ ex.pc = "returned") =>
              /\ [i \in 1..2 |-> ex.spawned[i].file] = <<ex.archive, TarOf(ex.archive)>>
              /\ Len(ex.spawned) = 2
              /\ TarOf(ex.archive) \notin ex.dest
              /\ Members \subseteq ex.dest
        /\ (~EndsWith(ex.archive, ".zip") /\ ~EndsWith(ex.archive, ".tar.gz")) =>
              /\ ex.pc = "failed" /\ ex.err = "ERROR_UNKNOWN_EXTENSION"
              /\ ex.spawned = <<>>

\* What holds: the same, with the second branch taken by every name that
\* ends in tar.gz, with or without the dot.
C15_ExtractBySuffix ==
    ex.pc \notin {"none", "start"} =>
        /\ EndsWith(ex.archive, ".zip") =>
              /\ Len(ex.spawned) = 1 /\ ex.spawned[1].file = ex.archive
              /\ ex.pc = "returned" \/ (ex.pc = "failed" /\ ex.err \in ExtractErrors)
        /\ (EndsWith(ex.archive, "tar.gz") /\ ex.pc = "returned") =>
              /\ [i \in 1..2 |-> ex.spawned[i].file] = <<ex.archive, TarOf(ex.archive)>>
              /\ Len(ex.spawned) = 2
              /\ TarOf(ex.archive) \notin ex.dest
              /\ Members \subseteq ex.dest
        /\ (~EndsWith(ex.archive, ".zip") /\ ~EndsWith(ex.archive, "tar.gz")) =>
              /\ ex.pc = "failed" /\ ex.err = "ERROR_UNKNOWN_EXTENSION"
              /\ ex.spawned = <<>>

\* The archiver has been run on avatar.gz.
C15_ArchiverRunOnGz == ex.archive = "avatar.gz" /\ ex.spawned # <<>>

\* The patterns whose matches are never shipped: the project's excludes,
\* the fixed excludes, the excludes of the dependencies.
Exclusions(config) == config.excludes \cup generalExcludes \cup dependenciesExcludes

\* A file lies in the output directory.
InOutput(f, output) == StartsWith(f, output \o "/")

\* The files a collection is to yield.
Shippable(config) ==
    {f \in ProjectFiles :
        /\ \E i \in DOMAIN config.files : GlobMatch(config.files[i], f)
        /\ \A e \in Exclusions(config) : ~GlobMatch(e, f)
        /\ ~InOutput(f, config.output)}

\* The orders of the entries of a list.
Orders(list) ==
    {q \in [DOMAIN list -> Range(list)] : \A x \in Range(list) : \E i \in DOMAIN q : q[i] = x}

Logical(token) ==
    CASE token \in {"win32", "win"}         -> "win"
      [] token \in {"darwin", "osx", "mac"} -> "mac"
      [] token = "linux"                    -> "linux"
      [] OTHER                              -> "none"

\* The steps of the finisher of a logical platform.
Finisher(logical) ==
    CASE logical = "win"   -> {"prepareWinBuild", "copyFiles", "renameWinApp"}
      [] logical = "mac"   -> {"prepareMacBuild", "copyFiles", "renameMacApp"}
      [] logical = "linux" -> {"prepareLinuxBuild", "copyFiles", "renameLinuxApp"}

\* C17: for a platform token that is no alias of Windows, Mac or Linux,
\* buildDirTarget fails before it touches the target directory and runs no
\* step, and the error it throws itself is ERROR_UNKNOWN_PLATFORM; for an
\* alias, the resource root, the steps that run and the packed branch are
\* those of the logical platform the alias names, and
\* ERROR_UNKNOWN_PLATFORM is never thrown.
C17_PlatformDispatch ==
    \A b \in Builders :
        LET B == builder[b]
            L == Logical(PlatformOf(B))
            d == DirOf(B)
        IN  (B.ti > 0 /\ B.pkgFile # "") =>
              IF L = "none"
              THEN /\ B.pc \in {"fetch", "dir", "failed"}
                   /\ d \notin DOMAIN dirs
                   /\ (B.pc = "failed" /\ B.at = "dir") =>
                         B.err \in {"ERROR_UNKNOWN_PLATFORM", "ERROR_EXTERNAL"}
                   /\ AppRoot(PlatformOf(B)) = "throw"
              ELSE /\ B.err # "ERROR_UNKNOWN_PLATFORM"
                   /\ AppRoot(PlatformOf(B)) =
                         (IF L = "mac" THEN "./nwjs.app/Contents/Resources/app.nw/" ELSE "./")
                   /\ B.pc = "step" => StepOf(B) \in Finisher(L)
                   /\ (AfterCopy(B) \/ B.pc = "done") =>
                         IF ManifestOf(B).packed /\ L \in {"win", "linux"}
                         THEN dirs[d].appended # "none"
                         ELSE /\ dirs[d].appended = "none"
                              /\ CollectFiles(ManifestOf(B)) \subseteq DOMAIN dirs[d].files

\* buildDirTarget has failed with ERROR_UNKNOWN_PLATFORM for freebsd.
C17_Witness ==
    /\ Top.ti > 0 /\ PlatformOf(Top) = "freebsd"
    /\ Top.pc = "failed" /\ Top.at = "dir" /\ Top.err = "ERROR_UNKNOWN_PLATFORM"

\* A packed bundle has been finished for the alias osx.
C17_WitnessAlias ==
    /\ Top.ti > 0 /\ PlatformOf(Top) = "osx" /\ Top.pc = "done"
    /\ ManifestOf(Top).packed

\* The place of the first target of a list that is none of zip, 7z, nsis,
\* nsis7z; 0 when there is none.
FirstUnknown(targets) ==
    IF \A i \in DOMAIN targets : targets[i] \in {"zip", "7z", "nsis", "nsis7z"}
    THEN 0
    ELSE CHOOSE k \in DOMAIN targets :
            /\ targets[k] \notin {"zip", "7z", "nsis", "nsis7z"}
            /\ \A i \in 1..(k - 1) : targets[i] \in {"zip", "7z", "nsis", "nsis7z"}

\* The kinds of file a target can write.
KindsOf(target) ==
    CASE target = "zip"    -> {"zip"}
      [] target = "7z"     -> {"7z"}
      [] target = "nsis"   -> {"Setup", "Update", "registry"}
      [] target = "nsis7z" -> {"7z", "Setup", "Update", "registry"}
      [] OTHER             -> {}

\* C18: when the targets of the manifest hold a kind that is none of zip,
\* 7z, nsis, nsis7z, a task never gets past the first such target: a builder
\* that reaches it fails there with ERROR_UNKNOWN_TARGET, the task is never
\* completed, and nothing is written for it but by the targets listed before
\* the unknown one.
C18_UnknownTarget ==
    \A b \in Builders :
        LET B == builder[b]
            k == FirstUnknown(ManifestOf(B).targets)
        IN  (B.ti > 0 /\ B.pkgFile # "" /\ k > 0) =>
              /\ B.tg <= k
              /\ B.pc # "done"
              /\ B.tg = k =>
                    \/ B.pc = "target"
                    \/ B.pc = "failed" /\ B.at = "target" /\ B.err = "ERROR_UNKNOWN_TARGET"
              /\ LogOf(tasklog, TaskOf(B)).targets < k
              /\ LogOf(tasklog, TaskOf(B)).made \subseteq
                    UNION {KindsOf(ManifestOf(B).targets[i]) : i \in 1..(k - 1)}

\* A task has built its installer and then failed at the target rar, with the
\* target 7z after it.
C18_Witness ==
    \E b \in Builders :
        /\ builder[b].pc = "failed" /\ builder[b].err = "ERROR_UNKNOWN_TARGET"
        /\ ManifestOf(builder[b]).targets = <<"nsis", "rar", "7z">>
        /\ "Setup" \in LogOf(tasklog, TaskOf(builder[b])).made

\* The sequential build has ended in the failure of one of its tasks.
SequentialTaskFailed ==
    /\ ~Top.options.concurrent
    /\ Top.pc = "failed" /\ Top.ti > 0

\* C19: a failure aborts only the task it happens in: when a sequential
\* build has come to rest after the failure of task i, every task after i in
\* the matrix has been built, directory and targets.  (A failed builder
\* takes no further step: what is not built by then never is.)
C19_LaterTasksBuilt ==
    SequentialTaskFailed =>
        \A j \in DOMAIN Top.tasks :
            j > Top.ti => Completed(Top.tasks[j], ManifestOf(Top))

\* What holds: the failure of task i ends the build, and no task after i is
\* ever started.
C19_FailureEndsBuild ==
    /\ SequentialTaskFailed =>
          \A j \in DOMAIN Top.tasks : j > Top.ti => Top.tasks[j] \notin Started
    /\ [][SequentialTaskFailed => UNCHANGED vars]_vars

\* The first of several tasks has failed.
C19_FirstOfManyFailed ==
    SequentialTaskFailed /\ Top.ti = 1 /\ Len(Top.tasks) > 1

\* The target directories buildDirTarget can leave for a manifest and a
\* platform when it starts from nothing.
FreshDirs(m, platform) ==
    LET stripped == StripManifest(Pkg(m), m.strippedProperties)
        base     == [runtime |-> TRUE, ffmpeg |-> m.ffmpegIntegration, prepared |-> TRUE,
                     files |-> <<>>, payload |-> <<>>, appended |-> "none",
                     renamed |-> TRUE, stale |-> FALSE]
        loose    == [f \in CollectFiles(m) \cup {"package.json"} |->
                        IF f = "package.json" THEN stripped
                        ELSE IF f \in ManifestFiles THEN Pkg(m) ELSE [data |-> f]]
        only     == [f \in {"package.json"} |-> stripped]
    IN  IF m.packed /\ Logical(platform) \in {"win", "linux"}
        THEN {[base EXCEPT !.files = only, !.appended = "whole",
                           !.payload = [f \in CollectFiles(m) |->
                                          IF f \in ManifestFiles THEN Pkg(m)
                                          ELSE [data |-> f]]],
              [base EXCEPT !.files = only, !.appended = "partial"]}
        ELSE {[base EXCEPT !.files = loose]}

\* C20: the target directory of a task whose buildDirTarget has returned is
\* one that buildDirTarget leaves when it starts from nothing, whatever the
\* directory held before: a second build leaves what the first left, and no
\* file of an earlier build is in it that this build did not write.  A
\* target directory that buildDirTarget has begun holds no such file either.
C20_DirCleared ==
    /\ \A t \in DOMAIN tasklog :
          tasklog[t].dir =>
              LET m == project["package.json"]
              IN  dirs[TargetDir(m.version, t[1], t[2])] \in FreshDirs(m, t[1])
    /\ \A b \in Builders :
          LET B == builder[b]
          IN  (B.pc = "step" \/ B.pc \in TargetPhase) =>
                  "old.js" \notin DOMAIN dirs[DirOf(B)].files

\* A task has been built over the directory an earlier build of the same
\* version left.
C20_Witness ==
    \E t \in DOMAIN tasklog :
        /\ tasklog[t].dir
        /\ t[1] = "win"
        /\ project["package.json"].version \in DOMAIN regBefore

\* C21: every builder that has read a manifest has read the file the
\* chromeApp selector of the top-level options names, manifest.json when it
\* is set and package.json when it is not, in sequential and in concurrent
\* mode alike.
C21_ManifestSelector ==
    \A b \in Builders :
        builder[b].pkgFile # "" =>
            builder[b].pkgFile =
                (IF Top.options.chromeApp THEN "manifest.json" ELSE "package.json")

\* What holds: a builder reads the file its own options name, and the
\* options of a sub-build never have the selector set.
C21_OwnSelector ==
    /\ \A b \in Builders :
          builder[b].pkgFile # "" => builder[b].pkgFile = ManifestFile(builder[b].options)
    /\ \A c \in SubBuilders : ~builder[c].options.chromeApp

\* A sub-build of a build with the selector set has read package.json.
C21_SubBuildReadPackageJson ==
    /\ Top.options.chromeApp /\ Top.options.concurrent
    /\ \E c \in SubBuilders : builder[c].pkgFile = "package.json"

\* A build of the two Windows tasks, x86 and x64, with an installer target
\* has finished.
BothWindowsInstallersBuilt ==
    /\ Top.pc = "done"
    /\ Top.tasks = <<<<"win", "x86">>, <<"win", "x64">>>>
    /\ \E i \in DOMAIN project["package.json"].targets :
          project["package.json"].targets[i] \in {"nsis", "nsis7z"}

\* The registry file records an installer of the built version for both
\* architectures.
BothRecorded ==
    LET V == project["package.json"].version
    IN  /\ V \in DOMAIN regFile
        /\ {"x86", "x64"} \subseteq DOMAIN regFile[V].installers

\* C22: after a finished build of the two Windows tasks with an installer
\* target, in sequential or in concurrent mode, the registry file records an
\* installer of the built version for x86 and one for x64.
C22_BothInstallersRecorded == BothWindowsInstallersBuilt => BothRecorded

\* What holds: the same of sequential mode.
C22_SequentialBothRecorded ==
    (BothWindowsInstallersBuilt /\ ~Top.options.concurrent) => BothRecorded

\* A concurrent build of both tasks has finished and the registry file
\* records the installer of one architecture only.
C22_UpdateLost ==
    /\ BothWindowsInstallersBuilt /\ Top.options.concurrent
    /\ ~BothRecorded

\* The installer and updater paths a registry records.
RecordedPaths(data) ==
    UNION {Range(data[v].installers) \cup Range(data[v].updaters) : v \in DOMAIN data}

\* C23: every installer path and every updater path that the registry file
\* records, or that the registry object of an installer target in progress
\* records, is the path of an executable whose compile has succeeded: the
\* file is there, whole.
C23_RecordedAfterCompile ==
    /\ \A a \in RecordedPaths(regFile) : a \in outFiles /\ a.whole
    /\ \A b \in Builders :
          builder[b].pc \in InstallerPhase =>
              \A a \in RecordedPaths(builder[b].versionInfo) : a \in outFiles /\ a.whole

\* A build has saved a registry that records an installer and an updater it
\* compiled.
C23_Witness ==
    /\ regFile # regBefore
    /\ \E v \in DOMAIN regFile :
          /\ v \notin DOMAIN regBefore
          /\ regFile[v].installers # <<>>
          /\ regFile[v].updaters # <<>>

\* The updaters compiled in the build.
Diffs == UNION {tasklog[t].diffs : t \in DOMAIN tasklog}

\* C24: every updater compiled for an architecture, from a version and to a
\* version, was computed from the target directory of the from-version for
\* that architecture and the target directory of the to-version for that
\* architecture.
C24_UpdaterSameArch ==
    \A u \in Diffs :
        /\ u.fromDir = TargetDir(u.from, "win", u.arch)
        /\ u.toDir = TargetDir(u.to, "win", u.arch)

\* What holds: the from-directory of an updater is the source the registry
\* held for the from-version when the installer target began.
C24_FromRegistrySource ==
    \A b \in Builders :
        builder[b].pc \in InstallerPhase =>
            \A u \in LogOf(tasklog, TaskOf(builder[b])).diffs :
                u.fromDir = builder[b].regAtBegin[u.from].source

\* An updater for x86 has been computed from the x64 directory of the
\* from-version.
C24_CrossArch ==
    \E u \in Diffs : u.arch = "x86" /\ u.fromDir = TargetDir(u.from, "win", "x64")

=============================================================================
